---- MODULE Spec2Model ----
(***************************************************************************)
(* Storyboard image generation: the retry driver                           *)
(* (generateSingleImageWithRetry), the worker pool                         *)
(* (runConcurrentGeneration) and the two bulk actions of src/App.tsx,      *)
(* together with the dashboard buttons that trigger them.                  *)
(*                                                                         *)
(* One step of the model is one task of the JavaScript event loop: a user  *)
(* event, the settling of a remote call, or the firing of a one-second     *)
(* timer, each followed by all the microtasks it makes runnable.           *)
(***************************************************************************)
EXTENDS Integers, Sequences, FiniteSets, TLC

(* ------------------------------ bounds -------------------------------- *)

\* The events of a run that are counted are the clicks on the generation
\* buttons of the dashboard and the failures of remote calls.
\* pool specification: largest number of scenes, number of counted events
MaxScenes == 5
MaxEvents == 3
\* orchestrator specification: the same
MaxBulkScenes == 3
MaxBulkEvents == 4
\* driver specification: the same, and the largest number of handler
\* invocations pending at the same time
MaxDriverScenes == 1
MaxDriverEvents == 6
MaxDriverPending == 1
\* message specification: the same as the first two
MaxMessageScenes == 1
MaxMessageEvents == 3
\* fair specification: the same
MaxFairScenes == 3
MaxFairEvents == 3
\* prompt specification: the same, prompt edits being counted events too
MaxPromptScenes == 2
MaxPromptEvents == 3
\* frame specification: scenes, and events for a retry of a failed job
MaxFrameScenes == 2
MaxFrameEvents == 4
\* termination specification: scenes, and events for a click and the
\* failures of every attempt of a driver
MaxLiveScenes == 2
MaxLiveEvents == 6
\* largest lateness, in whole seconds, of a one-second timer
MaxLate == 1

(* ------------------------- program constants -------------------------- *)

CONCURRENCY_LIMIT == 3
maxAttempts == 5
DefaultWaitSecs == 30
BufferSecs == 1
OverloadUnitSecs == 5
retries == 3
baseDelaySecs == 2

Min(a, b) == IF a < b THEN a ELSE b

(* --------------------------- error messages --------------------------- *)

\* A message is the sequence of its characters.
Digits == {"0", "1", "2", "3", "4", "5", "6", "7", "8", "9"}

DigitVal(c) ==
  CASE c = "0" -> 0 [] c = "1" -> 1 [] c = "2" -> 2 [] c = "3" -> 3
    [] c = "4" -> 4 [] c = "5" -> 5 [] c = "6" -> 6 [] c = "7" -> 7
    [] c = "8" -> 8 [] c = "9" -> 9

\* String.prototype.includes
Includes(msg, marker) ==
  \E i \in 1..(Len(msg) - Len(marker) + 1) :
     SubSeq(msg, i, i + Len(marker) - 1) = marker

M_429 == <<"4", "2", "9">>
M_quota == <<"q", "u", "o", "t", "a">>
M_503 == <<"5", "0", "3">>
M_403 == <<"4", "0", "3">>
M_overloaded == <<"o", "v", "e", "r", "l", "o", "a", "d", "e", "d">>
M_UNAVAILABLE == <<"U", "N", "A", "V", "A", "I", "L", "A", "B", "L", "E">>
M_PERMISSION_DENIED ==
  <<"P", "E", "R", "M", "I", "S", "S", "I", "O", "N", "_",
    "D", "E", "N", "I", "E", "D">>
M_perDay ==
  <<"g", "e", "n", "e", "r", "a", "t", "e", "_",
    "r", "e", "q", "u", "e", "s", "t", "s", "_",
    "p", "e", "r", "_", "m", "o", "d", "e", "l", "_",
    "p", "e", "r", "_", "d", "a", "y">>
M_retryIn == <<"r", "e", "t", "r", "y", " ", "i", "n", " ">>

\* the messages the remote service fails with in the pool specification: a
\* retryable one with a short wait and a terminal one
PoolMessages ==
  { M_429 \o <<" ">> \o M_retryIn \o <<"0", ".", "4", "s">>,
    <<"N", "o", " ", "i", "m", "a", "g", "e">> }

\* the messages the remote service fails with in the orchestrator
\* specification: one of each kind but ServiceOverloaded
BulkMessages ==
  PoolMessages \cup { M_429 \o <<" ">> \o M_perDay, M_403 }

\* the messages the remote service fails with in the fair specification: the
\* retryable one and the one that invalidates the credential
FairMessages ==
  { M_429 \o <<" ">> \o M_retryIn \o <<"0", ".", "4", "s">>, M_403 }

\* the messages the remote service fails with in the driver specification:
\* one for each way the catch block can go, with waits of at most 25 seconds
Messages ==
  BulkMessages \cup
  { M_503,
    M_429 \o <<" ">> \o M_retryIn \o <<".", "s">> }

\* the messages the remote service fails with in the message specification:
\* every marker, alone, combined and in the other letter case, and retry
\* delays of several shapes
AllMessages ==
  Messages \cup
  { M_429,
    M_quota,
    <<"Q", "u", "o", "t", "a">>,
    M_overloaded,
    <<"O", "v", "e", "r", "l", "o", "a", "d", "e", "d">>,
    M_UNAVAILABLE,
    <<"u", "n", "a", "v", "a", "i", "l", "a", "b", "l", "e">>,
    M_PERMISSION_DENIED,
    <<"p", "e", "r", "m", "i", "s", "s", "i", "o", "n", "_",
      "d", "e", "n", "i", "e", "d">>,
    M_429 \o <<" ">> \o M_retryIn \o <<"1", "2", ".", "3", "s">>,
    M_429 \o <<" ">> \o M_retryIn \o <<"3", "s">>,
    M_429 \o <<" ">> \o M_retryIn \o <<"s", "o", "o", "n">>,
    M_quota \o <<" ">> \o M_retryIn \o <<"0", ".", "4", "s">>
      \o <<" ">> \o M_403,
    M_403 \o <<" ">> \o M_503,
    M_503 \o <<" ">> \o M_429 }

\* Classify that tests the permission markers before the retryable ones
Classify_AuthFirst(msg) ==
  IF Includes(msg, M_perDay) THEN "DailyQuotaExceeded"
  ELSE IF Includes(msg, M_403) \/ Includes(msg, M_PERMISSION_DENIED)
         THEN "AuthDenied"
  ELSE IF Includes(msg, M_429) \/ Includes(msg, M_quota) THEN "RateLimited"
  ELSE IF Includes(msg, M_503) \/ Includes(msg, M_overloaded)
            \/ Includes(msg, M_UNAVAILABLE) THEN "ServiceOverloaded"
  ELSE "Unknown"

\* the branch of the catch block a message takes
Classify(msg) ==
  IF Includes(msg, M_perDay) THEN "DailyQuotaExceeded"
  ELSE IF Includes(msg, M_429) \/ Includes(msg, M_quota) THEN "RateLimited"
  ELSE IF Includes(msg, M_503) \/ Includes(msg, M_overloaded)
            \/ Includes(msg, M_UNAVAILABLE) THEN "ServiceOverloaded"
  ELSE IF Includes(msg, M_403) \/ Includes(msg, M_PERMISSION_DENIED)
         THEN "AuthDenied"
  ELSE "Unknown"

Retryable == {"RateLimited", "ServiceOverloaded"}

\* errMsg.match(/retry in ([\d\.]+)s/): the captured group, <<>> if no match
NumChars == Digits \cup {"."}

RECURSIVE RunEnd(_, _)
\* last index of the maximal run of [\d\.] characters starting at i
RunEnd(msg, i) ==
  IF i + 1 <= Len(msg) /\ msg[i + 1] \in NumChars
    THEN RunEnd(msg, i + 1) ELSE i

MatchAt(msg, i) ==
  /\ i + Len(M_retryIn) <= Len(msg)
  /\ SubSeq(msg, i, i + Len(M_retryIn) - 1) = M_retryIn
  /\ msg[i + Len(M_retryIn)] \in NumChars
  /\ LET e == RunEnd(msg, i + Len(M_retryIn))
     IN  e + 1 <= Len(msg) /\ msg[e + 1] = "s"

RetryMatch(msg) ==
  LET starts == {i \in 1..Len(msg) : MatchAt(msg, i)}
  IN  IF starts = {} THEN <<>>
      ELSE LET i == CHOOSE k \in starts : \A j \in starts : k <= j
               b == i + Len(M_retryIn)
           IN  SubSeq(msg, b, RunEnd(msg, b))

RECURSIVE DigitsEnd(_, _)
\* number of leading digits of s from position i on
DigitsEnd(s, i) ==
  IF i <= Len(s) /\ s[i] \in Digits THEN DigitsEnd(s, i + 1) ELSE i - 1

RECURSIVE NatOf(_)
NatOf(s) == IF s = <<>> THEN 0
            ELSE 10 * NatOf(SubSeq(s, 1, Len(s) - 1)) + DigitVal(s[Len(s)])

NaN == 0 - 1

\* Math.ceil(parseFloat(s)); NaN when s has no digit before or after its
\* first dot
CeilParseFloat(s) ==
  LET ie == DigitsEnd(s, 1)
      ip == SubSeq(s, 1, ie)
      hasDot == ie + 1 <= Len(s) /\ s[ie + 1] = "."
      fe == IF hasDot THEN DigitsEnd(s, ie + 2) ELSE ie
      fp == IF hasDot THEN SubSeq(s, ie + 2, fe) ELSE <<>>
  IN  IF ip = <<>> /\ fp = <<>> THEN NaN
      ELSE NatOf(ip) + (IF \E k \in 1..Len(fp) : fp[k] # "0" THEN 1 ELSE 0)

\* waitTimeMs / 1000 of the rate-limit branch
RateLimitWait(msg) ==
  LET g == RetryMatch(msg)
  IN  IF g = <<>> THEN DefaultWaitSecs
      ELSE LET c == CeilParseFloat(g)
           IN  IF c = NaN THEN NaN ELSE c + BufferSecs

\* OverloadWait that does not grow with the attempts
OverloadWait_Flat(attempts) == OverloadUnitSecs

\* waitTimeMs / 1000 of the overload branch
OverloadWait(attempts) == OverloadUnitSecs * attempts

(* ------------------------------- state -------------------------------- *)

VARIABLES
  scenes,           \* useState<Scene[]>: the job records, in scene order
  hasApiKey,        \* useState(false), after checkKey has settled
  error,            \* useState<string | null>: the session error banner
  appState,         \* useState<AppState>
  isGeneratingAll,  \* useState(false)
  queue,            \* runConcurrentGeneration: const queue
  workers,          \* runConcurrentGeneration: const workers, one driver each
  batchIds,         \* runConcurrentGeneration: ids of scenesToGenerate
  singles,          \* drivers started by handleGenerateSingleImage
  eventsLeft,       \* clicks and remote failures still to come
  maxPending,       \* handler invocations that may be pending together
  analysis          \* the callWithRetry invocation of analyzeScript

vars == <<scenes, hasApiKey, error, appState, isGeneratingAll, queue, workers,
          batchIds, singles, eventsLeft, maxPending, analysis>>

Undefined == "undefined"
Null == "null"

\* statusMessage values: a text and, for the countdowns, the seconds shown
NoStatus == [text |-> Undefined, secs |-> 0]
Retrying == [text |-> "Retrying...", secs |-> 0]
Queued == [text |-> "Queued...", secs |-> 0]
DailyLimitReached == [text |-> "Daily Limit Reached", secs |-> 0]
RateLimitCountdown(r) == [text |-> "Rate limit hit. Retrying in", secs |-> r]
OverloadCountdown(r) == [text |-> "Model busy (503). Retrying in", secs |-> r]

\* what generateSceneImage resolves to
ImageUrls == {"data:image/png;base64"}
\* s.imageUrl.includes('text=Generation+Failed')
HasFailedMarker(url) ==
  url \in {"https://placehold.co/1280x720?text=Generation+Failed"}

InitialPrompt == "p0"
\* the texts a prompt is edited to
Prompts == {"p0", "p1"}

\* handleAnalysis: the record built for scene number index
InitialScene(index) ==
  [id |-> index, imagePrompt |-> InitialPrompt, imageUrl |-> Undefined,
   isLoadingImage |-> FALSE, error |-> Undefined, statusMessage |-> NoStatus]

\* UpdateScene that applies the updates to every entry
UpdateScene_Every(scns, id, updates) ==
  [i \in DOMAIN scns |->
     [f \in DOMAIN scns[i] |->
        IF f \in DOMAIN updates THEN updates[f] ELSE scns[i][f]]]

\* updateScene applied to a value of the scenes state
UpdateScene(scns, id, updates) ==
  [i \in DOMAIN scns |->
     IF scns[i].id = id
       THEN [f \in DOMAIN scns[i] |->
               IF f \in DOMAIN updates THEN updates[f] ELSE scns[i][f]]
       ELSE scns[i]]

\* the scene with the given id
SceneOf(id) == scenes[id + 1]
SceneIds == {scenes[i].id : i \in DOMAIN scenes}

(* ------------------------------ the driver ---------------------------- *)

\* One invocation of generateSingleImageWithRetry: its arguments, its
\* locals, the number of generateSceneImage calls it has made, and where it
\* is suspended ("calling": line 124, "waiting": line 156 or 171); kinds is
\* the set of the kinds of its failed attempts so far.
NoDriver ==
  [id |-> 0 - 1, prompt |-> Undefined, attempts |-> 0, calls |-> 0,
   pc |-> "done", waitKind |-> Undefined, remaining |-> 0, kinds |-> {}]

FreshDriver(id, prompt) ==
  [id |-> id, prompt |-> prompt, attempts |-> 0, calls |-> 0,
   pc |-> "entered", waitKind |-> Undefined, remaining |-> 0, kinds |-> {}]

\* the terminating update of a driver
Terminate(scns, d, updates) ==
  [scenes |-> UpdateScene(scns, d.id, updates), driver |-> NoDriver,
   auth |-> FALSE]

\* LoopTop with the loop condition attempts <= maxAttempts
LoopTop_OneMore(scns, d) ==
  IF d.attempts <= maxAttempts
    THEN [scenes |-> UpdateScene(scns, d.id,
                       [isLoadingImage |-> TRUE, error |-> Undefined,
                        statusMessage |->
                          IF d.attempts > 0 THEN Retrying ELSE NoStatus]),
          driver |-> [d EXCEPT !.pc = "calling", !.calls = @ + 1,
                               !.waitKind = Undefined, !.remaining = 0],
          auth |-> FALSE]
    ELSE Terminate(scns, d,
           [isLoadingImage |-> FALSE, error |-> "Max Retries Exceeded",
            statusMessage |-> NoStatus])

\* top of the while (attempts < maxAttempts) loop, up to the next suspension
LoopTop(scns, d) ==
  IF d.attempts < maxAttempts
    THEN [scenes |-> UpdateScene(scns, d.id,
                       [isLoadingImage |-> TRUE, error |-> Undefined,
                        statusMessage |->
                          IF d.attempts > 0 THEN Retrying ELSE NoStatus]),
          driver |-> [d EXCEPT !.pc = "calling", !.calls = @ + 1,
                               !.waitKind = Undefined, !.remaining = 0],
          auth |-> FALSE]
    ELSE Terminate(scns, d,
           [isLoadingImage |-> FALSE, error |-> "Max Retries Exceeded",
            statusMessage |-> NoStatus])

\* WaitLoop whose countdown update also clears isLoadingImage
WaitLoop_ClearsLoading(scns, d, kind, remaining) ==
  IF remaining > 0
    THEN [scenes |-> UpdateScene(scns, d.id,
                       [isLoadingImage |-> FALSE,
                        statusMessage |->
                          IF kind = "RateLimited"
                            THEN RateLimitCountdown(remaining)
                            ELSE OverloadCountdown(remaining)]),
          driver |-> [d EXCEPT !.pc = "waiting", !.waitKind = kind,
                               !.remaining = remaining],
          auth |-> FALSE]
    ELSE LoopTop(scns, d)

\* top of a countdown loop, with `remaining` whole seconds to endTime
WaitLoop(scns, d, kind, remaining) ==
  IF remaining > 0
    THEN [scenes |-> UpdateScene(scns, d.id,
                       [statusMessage |->
                          IF kind = "RateLimited"
                            THEN RateLimitCountdown(remaining)
                            ELSE OverloadCountdown(remaining)]),
          driver |-> [d EXCEPT !.pc = "waiting", !.waitKind = kind,
                               !.remaining = remaining],
          auth |-> FALSE]
    ELSE LoopTop(scns, d)

\* OnSuccess whose terminating update also sets a failure tag
OnSuccess_TagsToo(scns, d, url) ==
  Terminate(scns, d, [imageUrl |-> url, isLoadingImage |-> FALSE,
                      error |-> "Failed", statusMessage |-> NoStatus])

\* generateSceneImage resolved with url
OnSuccess(scns, d, url) ==
  Terminate(scns, d, [imageUrl |-> url, isLoadingImage |-> FALSE,
                      statusMessage |-> NoStatus])

\* OnFailure that backs off and retries after an unclassified error
OnFailure_RetryUnknown(scns, d, msg) ==
  LET kind == Classify(msg)
      e == [d EXCEPT !.attempts = @ + 1, !.kinds = @ \cup {kind}]
  IN  CASE kind = "DailyQuotaExceeded" ->
             Terminate(scns, e,
               [isLoadingImage |-> FALSE, error |-> "Daily Quota Exceeded",
                statusMessage |-> DailyLimitReached])
        [] kind = "RateLimited" ->
             LET w == RateLimitWait(msg)
             IN  WaitLoop(scns, e, kind, IF w = NaN THEN 0 ELSE w)
        [] kind = "AuthDenied" ->
             [Terminate(scns, e,
                [isLoadingImage |-> FALSE, error |-> "Auth Failed",
                 statusMessage |-> NoStatus]) EXCEPT !.auth = TRUE]
        [] OTHER ->
             WaitLoop(scns, e, "ServiceOverloaded", OverloadWait(e.attempts))

\* OnFailure in which an unclassified error leaves the driver without a
\* terminating update
OnFailure_Throws(scns, d, msg) ==
  LET kind == Classify(msg)
      e == [d EXCEPT !.attempts = @ + 1, !.kinds = @ \cup {kind}]
  IN  CASE kind = "DailyQuotaExceeded" ->
             Terminate(scns, e,
               [isLoadingImage |-> FALSE, error |-> "Daily Quota Exceeded",
                statusMessage |-> DailyLimitReached])
        [] kind = "RateLimited" ->
             LET w == RateLimitWait(msg)
             IN  WaitLoop(scns, e, kind, IF w = NaN THEN 0 ELSE w)
        [] kind = "ServiceOverloaded" ->
             WaitLoop(scns, e, kind, OverloadWait(e.attempts))
        [] kind = "AuthDenied" ->
             [Terminate(scns, e,
                [isLoadingImage |-> FALSE, error |-> "Auth Failed",
                 statusMessage |-> NoStatus]) EXCEPT !.auth = TRUE]
        [] OTHER ->
             [scenes |-> scns, driver |-> NoDriver, auth |-> FALSE]

\* generateSceneImage rejected with an error whose message is msg
OnFailure(scns, d, msg) ==
  LET kind == Classify(msg)
      e == [d EXCEPT !.attempts = @ + 1, !.kinds = @ \cup {kind}]
  IN  CASE kind = "DailyQuotaExceeded" ->
             Terminate(scns, e,
               [isLoadingImage |-> FALSE, error |-> "Daily Quota Exceeded",
                statusMessage |-> DailyLimitReached])
        [] kind = "RateLimited" ->
             LET w == RateLimitWait(msg)
             IN  WaitLoop(scns, e, kind, IF w = NaN THEN 0 ELSE w)
        [] kind = "ServiceOverloaded" ->
             WaitLoop(scns, e, kind, OverloadWait(e.attempts))
        [] kind = "AuthDenied" ->
             [Terminate(scns, e,
                [isLoadingImage |-> FALSE, error |-> "Auth Failed",
                 statusMessage |-> NoStatus]) EXCEPT !.auth = TRUE]
        [] OTHER ->
             Terminate(scns, e,
               [isLoadingImage |-> FALSE, error |-> "Failed",
                statusMessage |-> NoStatus])

\* OnTick for which no time has passed when the timer fires
OnTick_Stuck(scns, d, late) ==
  WaitLoop(scns, d, d.waitKind, d.remaining)

\* a one-second timer of a countdown loop fired, `late` seconds late
OnTick(scns, d, late) ==
  LET r == d.remaining - (1 + late)
  IN  WaitLoop(scns, d, d.waitKind, IF r > 0 THEN r ELSE 0)

(* ---------------------------- the worker pool ------------------------- *)

\* the queue entry of a scene: the Scene object as selected
QueueEntry(s) == [id |-> s.id, imagePrompt |-> s.imagePrompt]

\* ProcessNext that leaves the scene it starts in the queue
ProcessNext_NoShift(scns, q) ==
  LET scene == Head(q)
      o == LoopTop(scns, FreshDriver(scene.id, scene.imagePrompt))
  IN  [scenes |-> o.scenes, driver |-> o.driver, queue |-> q]

\* ProcessNext that takes the scene at the end of the queue
ProcessNext_Lifo(scns, q) ==
  LET scene == q[Len(q)]
      o == LoopTop(scns, FreshDriver(scene.id, scene.imagePrompt))
  IN  [scenes |-> o.scenes, driver |-> o.driver,
       queue |-> SubSeq(q, 1, Len(q) - 1)]

\* processNext up to its first suspension: shift the queue and start the
\* driver on the scene taken
ProcessNext(scns, q) ==
  LET scene == Head(q)
      o == LoopTop(scns, FreshDriver(scene.id, scene.imagePrompt))
  IN  [scenes |-> o.scenes, driver |-> o.driver, queue |-> Tail(q)]

RECURSIVE LaunchWorkers_NoLimit(_, _)
\* LaunchWorkers that starts a worker for every job of the queue
LaunchWorkers_NoLimit(i, st) ==
  IF Len(st.queue) > 0
    THEN LET scene == Head(st.queue)
             o == LoopTop(st.scenes,
                          FreshDriver(scene.id, scene.imagePrompt))
         IN  LaunchWorkers_NoLimit(i + 1,
               [scenes |-> o.scenes, queue |-> Tail(st.queue),
                workers |-> Append(st.workers, o.driver)])
    ELSE st

RECURSIVE LaunchWorkers(_, _)
\* for (let i = 0; i < Math.min(CONCURRENCY_LIMIT, queue.length); i++)
\*   workers.push(processNext())
LaunchWorkers(i, st) ==
  IF i < Min(CONCURRENCY_LIMIT, Len(st.queue))
    THEN LET o == ProcessNext(st.scenes, st.queue)
         IN  LaunchWorkers(i + 1,
               [scenes |-> o.scenes, queue |-> o.queue,
                workers |-> Append(st.workers, o.driver)])
    ELSE st

\* RunConcurrentGeneration that never sets isGeneratingAll
RunConcurrentGeneration_NoFlag(scns, scenesToGenerate) ==
  LET st == LaunchWorkers(0, [scenes |-> scns, queue |-> scenesToGenerate,
                              workers |-> <<>>])
      resolved == st.workers = <<>>
  IN  /\ scenes' = st.scenes
      /\ queue' = st.queue
      /\ workers' = st.workers
      /\ isGeneratingAll' = FALSE
      /\ batchIds' = IF resolved THEN <<>>
                     ELSE [i \in DOMAIN scenesToGenerate |->
                             scenesToGenerate[i].id]

\* runConcurrentGeneration up to await Promise.all(workers); with no worker
\* to wait for, Promise.all resolves in the same task
RunConcurrentGeneration(scns, scenesToGenerate) ==
  LET st == LaunchWorkers(0, [scenes |-> scns, queue |-> scenesToGenerate,
                              workers |-> <<>>])
      resolved == st.workers = <<>>
  IN  /\ scenes' = st.scenes
      /\ queue' = st.queue
      /\ workers' = st.workers
      /\ isGeneratingAll' = ~resolved
      /\ batchIds' = IF resolved THEN <<>>
                     ELSE [i \in DOMAIN scenesToGenerate |->
                             scenesToGenerate[i].id]

\* the sequence s without its element number k
RemoveAt(s, k) == SubSeq(s, 1, k - 1) \o SubSeq(s, k + 1, Len(s))

\* WorkerContinues resolving the batch as soon as one worker finds the queue
\* empty, without waiting for the other workers
WorkerContinues_ResolveEarly(w, o) ==
  IF o.driver # NoDriver
    THEN /\ scenes' = o.scenes
         /\ workers' = [workers EXCEPT ![w] = o.driver]
         /\ UNCHANGED <<queue, isGeneratingAll, batchIds>>
    ELSE IF Len(queue) > 0
      THEN LET n == ProcessNext(o.scenes, queue)
           IN  /\ scenes' = n.scenes
               /\ queue' = n.queue
               /\ workers' = Append(RemoveAt(workers, w), n.driver)
               /\ UNCHANGED <<isGeneratingAll, batchIds>>
      ELSE /\ scenes' = o.scenes
           /\ workers' = RemoveAt(workers, w)
           /\ isGeneratingAll' = FALSE
           /\ UNCHANGED <<queue, batchIds>>

\* WorkerContinues in which a worker whose job ended with an error exits
\* without taking the next job
WorkerContinues_AbortOnError(w, o) ==
  IF o.driver # NoDriver
    THEN /\ scenes' = o.scenes
         /\ workers' = [workers EXCEPT ![w] = o.driver]
         /\ UNCHANGED <<queue, isGeneratingAll, batchIds>>
    ELSE IF Len(queue) > 0 /\ o.scenes[workers[w].id + 1].error = Undefined
      THEN LET n == ProcessNext(o.scenes, queue)
           IN  /\ scenes' = n.scenes
               /\ queue' = n.queue
               /\ workers' = Append(RemoveAt(workers, w), n.driver)
               /\ UNCHANGED <<isGeneratingAll, batchIds>>
      ELSE LET rest == RemoveAt(workers, w)
               resolved == rest = <<>>
           IN  /\ scenes' = o.scenes
               /\ workers' = rest
               /\ isGeneratingAll' = IF resolved THEN FALSE
                                     ELSE isGeneratingAll
               /\ batchIds' = IF resolved THEN <<>> ELSE batchIds
               /\ UNCHANGED queue

\* WorkerContinues in which a worker whose job has ended takes no job from
\* the queue while another worker is in a backoff wait
WorkerContinues_BlockedByWait(w, o) ==
  IF o.driver # NoDriver
    THEN /\ scenes' = o.scenes
         /\ workers' = [workers EXCEPT ![w] = o.driver]
         /\ UNCHANGED <<queue, isGeneratingAll, batchIds>>
    ELSE IF /\ Len(queue) > 0
            /\ \A v \in DOMAIN workers \ {w} : workers[v].pc # "waiting"
      THEN LET n == ProcessNext(o.scenes, queue)
           IN  /\ scenes' = n.scenes
               /\ queue' = n.queue
               /\ workers' = Append(RemoveAt(workers, w), n.driver)
               /\ UNCHANGED <<isGeneratingAll, batchIds>>
      ELSE LET rest == RemoveAt(workers, w)
               resolved == rest = <<>>
           IN  /\ scenes' = o.scenes
               /\ workers' = rest
               /\ isGeneratingAll' = IF resolved THEN FALSE
                                     ELSE isGeneratingAll
               /\ batchIds' = IF resolved THEN <<>> ELSE batchIds
               /\ UNCHANGED queue

\* what follows the settling of worker w's driver with outcome o: the rest
\* of processNext, and of runConcurrentGeneration once every worker is done.
\* workers holds the pending promises of the batch, in the order in which
\* their workers took the jobs they are on.
WorkerContinues(w, o) ==
  IF o.driver # NoDriver
    THEN /\ scenes' = o.scenes
         /\ workers' = [workers EXCEPT ![w] = o.driver]
         /\ UNCHANGED <<queue, isGeneratingAll, batchIds>>
    ELSE IF Len(queue) > 0
      THEN LET n == ProcessNext(o.scenes, queue)
           IN  /\ scenes' = n.scenes
               /\ queue' = n.queue
               /\ workers' = Append(RemoveAt(workers, w), n.driver)
               /\ UNCHANGED <<isGeneratingAll, batchIds>>
      ELSE LET rest == RemoveAt(workers, w)
               resolved == rest = <<>>
           IN  /\ scenes' = o.scenes
               /\ workers' = rest
               /\ isGeneratingAll' = IF resolved THEN FALSE
                                     ELSE isGeneratingAll
               /\ batchIds' = IF resolved THEN <<>> ELSE batchIds
               /\ UNCHANGED queue

\* the pending drivers of handleGenerateSingleImage are kept by scene id, the
\* order of their clicks having no effect: s with driver d put after those of
\* ids up to d.id
InsertDriver(s, d) ==
  LET before == SelectSeq(s, LAMBDA x : x.id <= d.id)
      after == SelectSeq(s, LAMBDA x : x.id > d.id)
  IN  before \o <<d>> \o after

\* what follows the settling of the driver of handleGenerateSingleImage
SingleContinues(k, o) ==
  /\ scenes' = o.scenes
  /\ singles' = IF o.driver # NoDriver THEN [singles EXCEPT ![k] = o.driver]
                ELSE RemoveAt(singles, k)

\* AuthSignal that never signals
AuthSignal_Silent(o) == UNCHANGED <<error, hasApiKey>>

\* the credential-invalid signal of the permission branch
AuthSignal(o) ==
  IF o.auth
    THEN /\ error' = "Permission denied. Select API Key."
         /\ hasApiKey' = FALSE
    ELSE UNCHANGED <<error, hasApiKey>>

(* ---------------------------- callWithRetry --------------------------- *)

\* One invocation of callWithRetry: its loop index i, the number of calls of
\* fn it has made, where it is suspended ("calling": await fn(), "waiting":
\* the timer of the delay), the delay of the pending timer in seconds, and
\* the error it has caught last; "thrown" once it has rethrown that error.
NoCall ==
  [pc |-> "idle", i |-> 0, calls |-> 0, delay |-> 0, caught |-> <<>>]

\* callWithRetry up to its first await fn()
FirstCall ==
  [pc |-> "calling", i |-> 0, calls |-> 1, delay |-> 0, caught |-> <<>>]

\* the messages fn fails with: two overloaded ones and another
AnalysisMessages ==
  { M_503, M_UNAVAILABLE, <<"N", "o", " ", "r", "e", "s", "p", "o", "n", "s", "e">> }

\* msg.includes('503') || msg.includes('overloaded') || msg.includes(...)
IsOverloaded(msg) ==
  Includes(msg, M_503) \/ Includes(msg, M_overloaded)
    \/ Includes(msg, M_UNAVAILABLE)

RECURSIVE Pow2(_)
\* Math.pow(2, n)
Pow2(n) == IF n = 0 THEN 1 ELSE 2 * Pow2(n - 1)

\* OnCallFailure that retries after every error
OnCallFailure_RetryAny(a, msg) ==
  IF a.i = retries - 1
    THEN [a EXCEPT !.pc = "thrown", !.caught = msg]
    ELSE [a EXCEPT !.pc = "waiting", !.caught = msg,
                   !.delay = baseDelaySecs * Pow2(a.i)]

\* the catch block of callWithRetry: fn rejected with msg
OnCallFailure(a, msg) ==
  IF a.i = retries - 1 \/ ~IsOverloaded(msg)
    THEN [a EXCEPT !.pc = "thrown", !.caught = msg]
    ELSE [a EXCEPT !.pc = "waiting", !.caught = msg,
                   !.delay = baseDelaySecs * Pow2(a.i)]

\* the timer of the delay fired: i++, the loop test, and the next await fn()
OnDelayOver(a) ==
  IF a.i + 1 < retries
    THEN [a EXCEPT !.pc = "calling", !.i = @ + 1, !.calls = @ + 1,
                   !.delay = 0]
    ELSE [a EXCEPT !.pc = "thrown", !.i = @ + 1, !.delay = 0,
                   !.caught = <<>>]

(* ------------------------------- actions ------------------------------ *)

\* the state once checkKey has settled, with the numbers of counted events
\* to come and of handler invocations that may be pending together
Start(events, pending) ==
  /\ scenes = <<>>
  /\ hasApiKey \in BOOLEAN
  /\ error = Null
  /\ appState = "IDLE"
  /\ isGeneratingAll = FALSE
  /\ queue = <<>>
  /\ workers = <<>>
  /\ batchIds = <<>>
  /\ singles = <<>>
  /\ eventsLeft = events
  /\ maxPending = pending
  /\ analysis = NoCall

\* the counted events cap the pending handler invocations by themselves
Init == Start(MaxEvents, MaxEvents)

\* the dashboard and the script input are rendered only with a key
UiShown == hasApiKey

\* a click on one of the generation buttons of the dashboard, while fewer
\* than maxPending of their handlers are pending
Click ==
  /\ UiShown
  /\ eventsLeft > 0
  /\ Len(singles) + (IF isGeneratingAll THEN 1 ELSE 0) < maxPending
  /\ eventsLeft' = eventsLeft - 1
  /\ UNCHANGED <<maxPending, analysis>>

HandleSelectKey ==
  /\ ~hasApiKey
  /\ hasApiKey' = TRUE
  /\ UNCHANGED <<scenes, error, appState, isGeneratingAll, queue, workers,
                 batchIds, singles, eventsLeft, maxPending, analysis>>

\* handleAnalysis up to await analyzeScript, which is suspended in the first
\* call of callWithRetry
HandleAnalysis ==
  /\ UiShown
  /\ Len(scenes) = 0
  /\ appState # "ANALYZING"
  /\ appState' = "ANALYZING"
  /\ error' = Null
  /\ scenes' = <<>>
  /\ analysis' = FirstCall
  /\ UNCHANGED <<hasApiKey, isGeneratingAll, queue, workers, batchIds,
                 singles, eventsLeft, maxPending>>

\* the call of callWithRetry resolved and analyzeScript resolved with n
\* scenes
AnalysisSucceeds(n) ==
  /\ appState = "ANALYZING"
  /\ analysis.pc = "calling"
  /\ scenes' = [i \in 1..n |-> InitialScene(i - 1)]
  /\ appState' = "COMPLETE"
  /\ analysis' = NoCall
  /\ UNCHANGED <<hasApiKey, error, isGeneratingAll, queue, workers, batchIds,
                 singles, eventsLeft, maxPending>>

\* the catch block of handleAnalysis
AnalysisRejected ==
  /\ error' = "Something went wrong."
  /\ appState' = "ERROR"

\* the call of callWithRetry rejected with msg: callWithRetry arms the timer
\* of its delay, or rethrows and analyzeScript rejects
CallFails(msg) ==
  /\ appState = "ANALYZING"
  /\ analysis.pc = "calling"
  /\ analysis' = OnCallFailure(analysis, msg)
  /\ IF analysis'.pc = "thrown" THEN AnalysisRejected
     ELSE UNCHANGED <<error, appState>>
  /\ UNCHANGED <<scenes, hasApiKey, isGeneratingAll, queue, workers, batchIds,
                 singles, eventsLeft, maxPending>>

\* the call of callWithRetry resolved with a response without text, or with
\* a text that is not JSON: analyzeScript throws
ResponseUnusable ==
  /\ appState = "ANALYZING"
  /\ analysis.pc = "calling"
  /\ analysis' = NoCall
  /\ AnalysisRejected
  /\ UNCHANGED <<scenes, hasApiKey, isGeneratingAll, queue, workers, batchIds,
                 singles, eventsLeft, maxPending>>

\* analyzeScript rejected, or its call failed and is to be retried
AnalysisFails ==
  \/ \E msg \in AnalysisMessages : CallFails(msg)
  \/ ResponseUnusable

\* the timer of the delay of callWithRetry fired
AnalysisRetries ==
  /\ appState = "ANALYZING"
  /\ analysis.pc = "waiting"
  /\ analysis' = OnDelayOver(analysis)
  /\ IF analysis'.pc = "thrown" THEN AnalysisRejected
     ELSE UNCHANGED <<error, appState>>
  /\ UNCHANGED <<scenes, hasApiKey, isGeneratingAll, queue, workers, batchIds,
                 singles, eventsLeft, maxPending>>

\* handleUpdatePrompt(id, newPrompt), which is also how handleRefinePrompt
\* ends when refinePrompt resolves
HandleUpdatePrompt(id, newPrompt) ==
  /\ UiShown
  /\ id \in SceneIds
  /\ newPrompt # SceneOf(id).imagePrompt
  /\ eventsLeft > 0
  /\ eventsLeft' = eventsLeft - 1
  /\ scenes' = UpdateScene(scenes, id, [imagePrompt |-> newPrompt])
  /\ UNCHANGED <<hasApiKey, error, appState, isGeneratingAll, queue, workers,
                 batchIds, singles, maxPending, analysis>>

\* the per-scene button: handleGenerateSingleImage(scene.id, scene.imagePrompt)
HandleGenerateSingleImage(id) ==
  /\ Click
  /\ id \in SceneIds
  /\ ~SceneOf(id).isLoadingImage
  /\ LET o == LoopTop(scenes, FreshDriver(id, SceneOf(id).imagePrompt))
     IN  /\ scenes' = o.scenes
         /\ singles' = InsertDriver(singles, o.driver)
  /\ UNCHANGED <<hasApiKey, error, appState, isGeneratingAll, queue, workers,
                 batchIds>>

\* PendingScenes that also leaves out the scenes being generated
PendingScenes_SkipLoading(scns) ==
  SelectSeq(scns, LAMBDA s : s.imageUrl = Undefined /\ ~s.isLoadingImage)

\* scenes.filter(s => !s.imageUrl)
PendingScenes(scns) == SelectSeq(scns, LAMBDA s : s.imageUrl = Undefined)

\* FailedScenes that takes every scene without an image for failed
FailedScenes_NoImage(scns) ==
  SelectSeq(scns, LAMBDA s : s.error # Undefined \/ s.imageUrl = Undefined)

\* scenes.filter(s => s.error || (s.imageUrl && ...includes(...)))
FailedScenes(scns) ==
  SelectSeq(scns, LAMBDA s : \/ s.error # Undefined
                             \/ /\ s.imageUrl # Undefined
                                /\ HasFailedMarker(s.imageUrl))

ToQueue(sel) == [i \in DOMAIN sel |-> QueueEntry(sel[i])]

\* the "Generate All Images" button
HandleGenerateAll ==
  /\ Click
  /\ ~isGeneratingAll
  /\ Len(scenes) # 0
  /\ RunConcurrentGeneration(scenes, ToQueue(PendingScenes(scenes)))
  /\ UNCHANGED <<hasApiKey, error, appState, singles>>

RECURSIVE ResetErrors(_, _)
\* failedScenes.forEach(s => updateScene(s.id, {error: undefined, ...}))
ResetErrors(scns, sel) ==
  IF sel = <<>> THEN scns
  ELSE ResetErrors(UpdateScene(scns, Head(sel).id,
                     [error |-> Undefined, statusMessage |-> Queued]),
                   Tail(sel))

\* the "Retry Failed" button, rendered when some scene has an error
HandleRegenerateFailed ==
  /\ Click
  /\ ~isGeneratingAll
  /\ \E i \in DOMAIN scenes : scenes[i].error # Undefined
  /\ LET failedScenes == FailedScenes(scenes)
     IN  RunConcurrentGeneration(ResetErrors(scenes, failedScenes),
                                 ToQueue(failedScenes))
  /\ UNCHANGED <<hasApiKey, error, appState, singles>>

\* the drivers: <<"worker", w>> and <<"single", k>>
DriverAt(slot) == IF slot[1] = "worker" THEN workers[slot[2]]
                  ELSE singles[slot[2]]
Slots == {<<"worker", w>> : w \in DOMAIN workers}
           \cup {<<"single", k>> : k \in DOMAIN singles}
ActiveSlots == {slot \in Slots : DriverAt(slot) # NoDriver}

\* the rest of the task in which the driver at slot reached outcome o
Continue(slot, o) ==
  /\ IF slot[1] = "worker"
       THEN WorkerContinues(slot[2], o) /\ UNCHANGED singles
       ELSE SingleContinues(slot[2], o)
              /\ UNCHANGED <<queue, workers, isGeneratingAll, batchIds>>
  /\ AuthSignal(o)
  /\ UNCHANGED <<appState, analysis>>

\* generateSceneImage of the driver at slot resolves
RemoteSucceeds(slot, url) ==
  /\ DriverAt(slot).pc = "calling"
  /\ Continue(slot, OnSuccess(scenes, DriverAt(slot), url))
  /\ UNCHANGED <<eventsLeft, maxPending>>

\* generateSceneImage of the driver at slot rejects
RemoteFails(slot, msg) ==
  /\ DriverAt(slot).pc = "calling"
  /\ eventsLeft > 0
  /\ eventsLeft' = eventsLeft - 1
  /\ UNCHANGED maxPending
  /\ Continue(slot, OnFailure(scenes, DriverAt(slot), msg))

\* a one-second timer of the driver at slot fires
Tick(slot, late) ==
  /\ DriverAt(slot).pc = "waiting"
  /\ Continue(slot, OnTick(scenes, DriverAt(slot), late))
  /\ UNCHANGED <<eventsLeft, maxPending>>

\* the steps of the user and of the drivers, whatever the remote service does
Steps ==
  \/ HandleSelectKey
  \/ HandleAnalysis
  \/ AnalysisFails
  \/ AnalysisRetries
  \/ \E id \in SceneIds : HandleGenerateSingleImage(id)
  \/ HandleGenerateAll
  \/ HandleRegenerateFailed
  \/ \E slot \in ActiveSlots, url \in ImageUrls : RemoteSucceeds(slot, url)
  \/ \E slot \in ActiveSlots, late \in 0..MaxLate : Tick(slot, late)

\* the pool specification: up to MaxScenes scenes, enough for
\* CONCURRENCY_LIMIT workers, and two kinds of failure
Next ==
  \/ Steps
  \/ \E n \in 0..MaxScenes : AnalysisSucceeds(n)
  \/ \E slot \in ActiveSlots, msg \in PoolMessages : RemoteFails(slot, msg)

Spec == Init /\ [][Next]_vars

\* the orchestrator specification: few scenes, the terminal kinds of failure,
\* events enough for two bulk actions around two failures
InitBulk == Start(MaxBulkEvents, MaxBulkEvents)

NextBulk ==
  \/ Steps
  \/ \E n \in 0..MaxBulkScenes : AnalysisSucceeds(n)
  \/ \E slot \in ActiveSlots, msg \in BulkMessages : RemoteFails(slot, msg)

SpecBulk == InitBulk /\ [][NextBulk]_vars

\* the driver specification: few scenes, few handler invocations pending
\* together, every message, events enough to exhaust the attempts of a driver
InitDriver == Start(MaxDriverEvents, MaxDriverPending)

NextDriver ==
  \/ Steps
  \/ \E n \in 0..MaxDriverScenes : AnalysisSucceeds(n)
  \/ \E slot \in ActiveSlots, msg \in Messages : RemoteFails(slot, msg)

SpecDriver == InitDriver /\ [][NextDriver]_vars

\* the driver specification with one more event and one more pending
\* handler invocation, which lets a second driver run beside the first
InitTwoDrivers == Start(MaxDriverEvents + 1, MaxDriverPending + 1)

SpecTwoDrivers == InitTwoDrivers /\ [][NextDriver]_vars

\* the message specification: the driver specification with every message,
\* in which every pending remote call settles and every pending timer fires
InitMessages == Start(MaxMessageEvents, MaxDriverPending)

NextMessages ==
  \/ Steps
  \/ \E n \in 0..MaxMessageScenes : AnalysisSucceeds(n)
  \/ \E slot \in ActiveSlots, msg \in AllMessages : RemoteFails(slot, msg)

\* a remote call settles or a timer fires
DriverStep ==
  \/ \E slot \in ActiveSlots, url \in ImageUrls : RemoteSucceeds(slot, url)
  \/ \E slot \in ActiveSlots, late \in 0..MaxLate : Tick(slot, late)

SpecMessages == InitMessages /\ [][NextMessages]_vars /\ WF_vars(DriverStep)

\* the fair specification: every pending remote call settles and every
\* pending timer fires
InitFair == Start(MaxFairEvents, MaxFairEvents)

NextFair ==
  \/ Steps
  \/ \E n \in 0..MaxFairScenes : AnalysisSucceeds(n)
  \/ \E slot \in ActiveSlots, msg \in FairMessages : RemoteFails(slot, msg)

SpecFair == InitFair /\ [][NextFair]_vars /\ WF_vars(DriverStep)

\* the prompt specification: the pool specification with few scenes, in
\* which the user also edits prompts
InitPrompt == Start(MaxPromptEvents, MaxPromptEvents)

NextPrompt ==
  \/ Steps
  \/ \E n \in 0..MaxPromptScenes : AnalysisSucceeds(n)
  \/ \E slot \in ActiveSlots, msg \in PoolMessages : RemoteFails(slot, msg)
  \/ \E id \in SceneIds, newPrompt \in Prompts :
        HandleUpdatePrompt(id, newPrompt)

SpecPrompt == InitPrompt /\ [][NextPrompt]_vars

\* the frame specification: the orchestrator specification with fewer
\* scenes
InitFrame == Start(MaxFrameEvents, MaxFrameEvents)

NextFrame ==
  \/ Steps
  \/ \E n \in 0..MaxFrameScenes : AnalysisSucceeds(n)
  \/ \E slot \in ActiveSlots, msg \in BulkMessages : RemoteFails(slot, msg)

SpecFrame == InitFrame /\ [][NextFrame]_vars

\* the termination specification: one handler invocation at a time, events
\* enough to exhaust the attempts of a driver, and every pending remote call
\* settles and every pending timer fires
InitLive == Start(MaxLiveEvents, 1)

NextLive ==
  \/ Steps
  \/ \E n \in 0..MaxLiveScenes : AnalysisSucceeds(n)
  \/ \E slot \in ActiveSlots, msg \in FairMessages : RemoteFails(slot, msg)

SpecLive == InitLive /\ [][NextLive]_vars /\ WF_vars(DriverStep)

(* ------------------------------- claims ------------------------------- *)

\* the jobs whose isLoadingImage is true
LoadingIds == {scenes[i].id : i \in {j \in DOMAIN scenes :
                                       scenes[j].isLoadingImage}}
\* the workers of the running batch that hold a driver
ActiveWorkers == {w \in DOMAIN workers : workers[w] # NoDriver}
\* the jobs some driver owns
OwnedIds == {DriverAt(slot).id : slot \in ActiveSlots}

\* C1, as stated: in every reachable state at most CONCURRENCY_LIMIT jobs
\* have isLoadingImage = true, the per-scene button included.
C1_AtMostLimitLoading == Cardinality(LoadingIds) <= CONCURRENCY_LIMIT

\* C1, amended: at most CONCURRENCY_LIMIT jobs are driven by the workers of
\* a batch at the same time; the per-scene button bypasses the pool, so the
\* number of jobs with isLoadingImage = true is at most the number of active
\* workers plus the number of drivers started by the per-scene button.
C1_PoolCap ==
  /\ Cardinality(ActiveWorkers) <= CONCURRENCY_LIMIT
  /\ Cardinality(LoadingIds) <= Cardinality(ActiveWorkers) + Len(singles)

\* three workers and a per-scene driver run four different jobs
C1_Witness ==
  /\ Cardinality(ActiveWorkers) = CONCURRENCY_LIMIT
  /\ Len(singles) = 1
  /\ Cardinality(LoadingIds) = CONCURRENCY_LIMIT + 1

\* C2: for every job id at most one invocation of the retry driver is
\* active at any time.
C2_OneDriverPerJob ==
  \A s1, s2 \in ActiveSlots :
     DriverAt(s1).id = DriverAt(s2).id => s1 = s2

\* C3: a batch of N jobs launches exactly min(CONCURRENCY_LIMIT, N) workers
\* at its start.
C3_LaunchesMinLimitN ==
  [][(HandleGenerateAll \/ HandleRegenerateFailed) =>
       Len(workers') = Min(CONCURRENCY_LIMIT, Len(workers') + Len(queue'))]_vars

\* the step in which runConcurrentGeneration resolves
BatchResolves == isGeneratingAll /\ ~isGeneratingAll'

\* job id has reached a terminal outcome in the next state
Settled(id) ==
  LET s == scenes'[id + 1]
  IN  /\ s.imageUrl # Undefined \/ s.error # Undefined
      /\ ~s.isLoadingImage

\* C4, as stated: in the state where runConcurrentGeneration resolves, every
\* job of the batch has imageUrl or error set and isLoadingImage false.
C4_BatchSettled ==
  [][BatchResolves =>
       \A n \in DOMAIN batchIds : Settled(batchIds[n])]_vars

\* C4, amended: in the state where runConcurrentGeneration resolves, every
\* job of the batch that no driver started by the per-scene button owns at
\* that moment has imageUrl or error set and isLoadingImage false.
C4_BatchSettledButSingles ==
  [][BatchResolves =>
       \A n \in DOMAIN batchIds :
          (\A k \in DOMAIN singles' : singles'[k].id # batchIds[n])
             => Settled(batchIds[n])]_vars

\* a batch of all the scenes has resolved with a failed job among them
C4_Witness ==
  /\ Len(scenes) = MaxScenes
  /\ ~isGeneratingAll
  /\ singles = <<>>
  /\ \E i \in DOMAIN scenes : scenes[i].error # Undefined
  /\ \A i \in DOMAIN scenes :
        /\ scenes[i].imageUrl # Undefined \/ scenes[i].error # Undefined
        /\ ~scenes[i].isLoadingImage

\* C5: in every reachable state isLoadingImage of a job is true if and only
\* if some driver invocation owns the job.
C5_LoadingIffOwned == LoadingIds = OwnedIds

\* the failure kinds after which the driver returns
TerminalKinds == {"DailyQuotaExceeded", "AuthDenied", "Unknown"}

\* the messages of the model that are of these kinds
TerminalMessages == {msg \in Messages : Classify(msg) \in TerminalKinds}

\* the tag a terminal kind leaves in the error field
TagOf(kind) ==
  CASE kind = "DailyQuotaExceeded" -> "Daily Quota Exceeded"
    [] kind = "AuthDenied" -> "Auth Failed"
    [] kind = "Unknown" -> "Failed"

\* in the next state the invocation that was at slot makes no further call:
\* its entry is gone, or its worker has exited or gone on to another job
Stopped(slot) ==
  IF slot[1] = "single"
    THEN singles' = RemoveAt(singles, slot[2])
    ELSE \A w \in DOMAIN workers' : workers'[w].id # workers[slot[2]].id

\* C6: a driver whose remote call fails with DailyQuotaExceeded, AuthDenied
\* or Unknown stops in that step with the kind's tag in error and
\* isLoadingImage false, and makes no further call; when it was the first
\* call of the invocation, the invocation has made exactly one call.
C6_TerminalKindsStop ==
  [][\A slot \in ActiveSlots, msg \in TerminalMessages :
       (eventsLeft' # eventsLeft /\ RemoteFails(slot, msg)) =>
          LET d == DriverAt(slot)
          IN  /\ Stopped(slot)
              /\ scenes'[d.id + 1].error = TagOf(Classify(msg))
              /\ ~scenes'[d.id + 1].isLoadingImage
              /\ d.calls = d.attempts + 1
              /\ d.attempts = 0 => d.calls = 1]_vars

\* after one click, the only failure of the run was terminal and has ended
\* its driver
C6_Witness ==
  /\ eventsLeft = MaxDriverEvents - 2
  /\ ActiveSlots = {}
  /\ \E i \in DOMAIN scenes :
        /\ scenes[i].error \in {"Daily Quota Exceeded", "Auth Failed", "Failed"}
        /\ ~scenes[i].isLoadingImage

\* the rate-limit messages whose retry delay parses to NaN
NoWaitMessages ==
  {msg \in Messages :
     Classify(msg) = "RateLimited" /\ RateLimitWait(msg) = NaN}

\* the step in which the countdown of the driver at slot ends
WaitEnds(slot) ==
  \/ \E late \in 0..MaxLate :
        /\ DriverAt(slot).remaining <= 1 + late
        /\ Tick(slot, late)
  \/ /\ eventsLeft' # eventsLeft
     /\ \E msg \in NoWaitMessages : RemoteFails(slot, msg)

\* the number of failed attempts of the driver at slot once the step is done
AttemptsAfter(slot) ==
  IF DriverAt(slot).pc = "calling" THEN DriverAt(slot).attempts + 1
  ELSE DriverAt(slot).attempts

\* C7: a driver whose five attempts all failed with retryable kinds ends, when
\* its last wait is over, with error "Max Retries Exceeded", statusMessage
\* cleared and isLoadingImage false, after five remote calls.
C7_RetriesExhausted ==
  [][\A slot \in ActiveSlots :
       (AttemptsAfter(slot) = maxAttempts /\ WaitEnds(slot)) =>
          LET d == DriverAt(slot)
          IN  /\ Stopped(slot)
              /\ d.calls = maxAttempts
              /\ scenes'[d.id + 1].error = "Max Retries Exceeded"
              /\ scenes'[d.id + 1].statusMessage = NoStatus
              /\ ~scenes'[d.id + 1].isLoadingImage]_vars

\* after one click, five failures, all retryable, have ended the only driver
\* of the run
C7_Witness ==
  /\ eventsLeft = MaxDriverEvents - (1 + maxAttempts)
  /\ ActiveSlots = {}
  /\ \E i \in DOMAIN scenes :
        /\ scenes[i].error = "Max Retries Exceeded"
        /\ scenes[i].statusMessage = NoStatus
        /\ ~scenes[i].isLoadingImage

\* C8: a driver whose calls failed with RateLimited on attempts 1 to 4 and
\* whose fifth call succeeds ends with imageUrl set, error unset and
\* isLoadingImage false.
C8_FifthCallSucceeds ==
  [][\A slot \in ActiveSlots, url \in ImageUrls :
       (/\ DriverAt(slot).attempts = maxAttempts - 1
        /\ DriverAt(slot).kinds = {"RateLimited"}
        /\ RemoteSucceeds(slot, url)) =>
          LET d == DriverAt(slot)
          IN  /\ Stopped(slot)
              /\ scenes'[d.id + 1].imageUrl = url
              /\ scenes'[d.id + 1].error = Undefined
              /\ ~scenes'[d.id + 1].isLoadingImage]_vars

\* the part of C8 that holds of every invocation: the fifth call is made, and
\* its success sets imageUrl and clears isLoadingImage and statusMessage
C8_FifthCallIsMade ==
  [][\A slot \in ActiveSlots, url \in ImageUrls :
       (/\ DriverAt(slot).attempts = maxAttempts - 1
        /\ DriverAt(slot).kinds = {"RateLimited"}
        /\ RemoteSucceeds(slot, url)) =>
          LET d == DriverAt(slot)
          IN  /\ Stopped(slot)
              /\ d.calls = maxAttempts
              /\ scenes'[d.id + 1].imageUrl = url
              /\ scenes'[d.id + 1].statusMessage = NoStatus
              /\ ~scenes'[d.id + 1].isLoadingImage]_vars

\* the indices of the set S of scene indices, in increasing order
InOrder(S) ==
  [k \in 1..Cardinality(S) |->
     CHOOSE i \in S : Cardinality({j \in S : j < i}) = k - 1]

\* the ids of the scenes whose indices are in S, in scene order
IdsInOrder(S) == [k \in 1..Cardinality(S) |-> scenes[InOrder(S)[k]].id]

\* the ids of the jobs the batch started in this step was given: the jobs its
\* workers took, in worker order, then the jobs left in its queue
BatchGiven ==
  [w \in DOMAIN workers' |-> workers'[w].id]
    \o [n \in DOMAIN queue' |-> queue'[n].id]

\* C9: handleRegenerateFailed puts into its batch exactly the jobs whose
\* error was set before the call; on each of them error is cleared and, until
\* its driver starts, statusMessage is "Queued..."; the other jobs are left
\* unchanged.
C9_RetryFailedSelection ==
  [][HandleRegenerateFailed =>
       LET failed == {i \in DOMAIN scenes : scenes[i].error # Undefined}
       IN  /\ BatchGiven = IdsInOrder(failed)
           /\ batchIds' = IdsInOrder(failed)
           /\ \A i \in failed :
                 /\ scenes'[i].error = Undefined
                 /\ scenes'[i].id = scenes[i].id
                 /\ (\E n \in DOMAIN queue' : queue'[n].id = scenes[i].id)
                      => scenes'[i] = [scenes[i] EXCEPT
                                         !.error = Undefined,
                                         !.statusMessage = Queued]
           /\ \A i \in DOMAIN scenes \ failed : scenes'[i] = scenes[i]]_vars

\* a batch of two failed jobs has started: one is running, the other queued
C9_Witness ==
  /\ isGeneratingAll
  /\ Len(batchIds) = 2
  /\ Len(queue) = 1
  /\ \E i \in DOMAIN scenes :
        /\ scenes[i].id = queue[1].id
        /\ scenes[i].statusMessage = Queued
        /\ scenes[i].error = Undefined
  /\ \E i \in DOMAIN scenes :
        scenes[i].imageUrl # Undefined /\ scenes[i].statusMessage = NoStatus

\* C10: handleGenerateAll runs as one batch exactly the jobs without imageUrl
\* at the time of the call, in scene order, and starts no job that has one.
C10_GenerateAllSelection ==
  [][HandleGenerateAll =>
       LET pending == {i \in DOMAIN scenes : scenes[i].imageUrl = Undefined}
       IN  /\ BatchGiven = IdsInOrder(pending)
           /\ batchIds' = IdsInOrder(pending)
           /\ \A i \in DOMAIN scenes \ pending : scenes'[i] = scenes[i]
           /\ \A w \in DOMAIN workers' :
                 /\ workers'[w].pc = "calling"
                 /\ scenes'[workers'[w].id + 1].isLoadingImage]_vars

\* a batch runs the jobs without an image beside a job that has one
C10_Witness ==
  /\ isGeneratingAll
  /\ batchIds # <<>>
  /\ \E i \in DOMAIN scenes :
        /\ scenes[i].imageUrl # Undefined
        /\ \A n \in DOMAIN batchIds : batchIds[n] # scenes[i].id
  /\ \A i \in DOMAIN scenes :
        scenes[i].imageUrl = Undefined
           => \E n \in DOMAIN batchIds : batchIds[n] = scenes[i].id

\* job id waits in the queue of the running batch
InQueue(id) == \E n \in DOMAIN queue : queue[n].id = id

\* job id is out of the queue and of the hands of the workers, with a
\* terminal outcome in its record
RanInBatch(id) ==
  /\ ~InQueue(id)
  /\ \A w \in DOMAIN workers : workers[w].id # id
  /\ id + 1 \in DOMAIN scenes
  /\ SceneOf(id).imageUrl # Undefined \/ SceneOf(id).error # Undefined
  /\ ~SceneOf(id).isLoadingImage

\* the step in which the job of the worker at slot fails terminally leaves
\* the other workers as they are and, with a job left in the queue, hands
\* that job to the worker while the batch goes on
KeepsBatch(slot) ==
  /\ \A w \in DOMAIN workers \ {slot[2]} :
        \E v \in DOMAIN workers' : workers'[v] = workers[w]
  /\ queue # <<>> =>
        /\ queue' = Tail(queue)
        /\ isGeneratingAll'
        /\ \E v \in DOMAIN workers' :
              /\ workers'[v].id = Head(queue).id
              /\ workers'[v].pc = "calling"
              /\ workers'[v].calls = 1
  /\ (queue = <<>> /\ Len(workers) > 1) => isGeneratingAll'

\* C11: a terminal failure of a worker's job, AuthDenied included, does not
\* abort the batch: the worker goes on to the next queued job, the other
\* workers are unaffected, and every queued job is eventually started and
\* reaches a terminal outcome.
C11_FailureKeepsBatch ==
  /\ [][eventsLeft' # eventsLeft =>
          \A slot \in ActiveSlots, msg \in TerminalMessages :
             (slot[1] = "worker" /\ RemoteFails(slot, msg))
                => KeepsBatch(slot)]_vars
  /\ \A id \in 0..(MaxFairScenes - 1) : InQueue(id) ~> RanInBatch(id)

\* in a batch of three jobs, one failed with AuthDenied and its worker has
\* taken the job that was queued, beside the other worker
C11_Witness ==
  /\ isGeneratingAll
  /\ ~hasApiKey
  /\ Len(batchIds) = 3
  /\ Len(workers) = 2
  /\ queue = <<>>
  /\ \E n \in DOMAIN batchIds, w \in DOMAIN workers :
        /\ SceneOf(batchIds[n]).error = "Auth Failed"
        /\ workers[w].id = batchIds[3]
        /\ batchIds[n] # batchIds[3]

\* the tags a driver leaves in the error field
FailureTags ==
  {"Daily Quota Exceeded", "Auth Failed", "Failed", "Max Retries Exceeded"}

\* the step ends the invocation that was at slot
DriverEnds(slot) == Stopped(slot)

\* in the next state the record of job id holds a terminal state
TerminalWritten(id) ==
  LET s == scenes'[id + 1]
  IN  /\ ~s.isLoadingImage
      /\ s.imageUrl \in ImageUrls \/ s.error \in FailureTags

\* C12: every driver invocation ends by writing a terminal state to the job
\* record, whatever the failure of the remote call, and a running batch
\* always reaches the step that resets isGeneratingAll.
C12_DriverAlwaysSettles ==
  /\ [][\A slot \in ActiveSlots :
          DriverEnds(slot) => TerminalWritten(DriverAt(slot).id)]_vars
  /\ isGeneratingAll ~> ~isGeneratingAll

\* a batch has resolved after the terminal failure of a job
C12_Witness ==
  /\ ~isGeneratingAll
  /\ ActiveSlots = {}
  /\ eventsLeft = MaxMessageEvents - 2
  /\ \E i \in DOMAIN scenes :
        /\ scenes[i].error \in FailureTags
        /\ scenes[i].imageUrl = Undefined

\* the session error of the credential-invalid signal
PermissionDenied == "Permission denied. Select API Key."

\* the signal is emitted in the step
Signalled == ~hasApiKey' /\ error' = PermissionDenied

\* the step leaves the credential and the session error alone
NotSignalled == hasApiKey' = hasApiKey /\ error' = error

\* C13: a driver that terminates its job with AuthDenied emits the
\* credential-invalid signal in the same step (hasApiKey false, session error
\* set); no other failure kind, no success and no timer emits it.
C13_AuthSignalOnlyOnAuthDenied ==
  [][(\A slot \in ActiveSlots, msg \in AllMessages :
        RemoteFails(slot, msg) =>
           IF Classify(msg) = "AuthDenied"
             THEN /\ Signalled
                  /\ scenes'[DriverAt(slot).id + 1].error = "Auth Failed"
                  /\ Stopped(slot)
             ELSE NotSignalled)
     /\ (\A slot \in ActiveSlots, url \in ImageUrls :
           RemoteSucceeds(slot, url) => NotSignalled)
     /\ (\A slot \in ActiveSlots, late \in 0..MaxLate :
           Tick(slot, late) => NotSignalled)]_vars

\* a driver has ended its job with "Auth Failed" and the credential is
\* marked invalid
C13_Witness ==
  /\ ~hasApiKey
  /\ error = PermissionDenied
  /\ ActiveSlots = {}
  /\ \E i \in DOMAIN scenes :
        scenes[i].error = "Auth Failed" /\ ~scenes[i].isLoadingImage

\* C14: in every state where no driver owns a job, its imageUrl is present if
\* and only if its most recent invocation ended in success: a job that no
\* driver owns and whose error is set, its last invocation having failed,
\* has no imageUrl.
C14_ResultIffLastSuccess ==
  \A i \in DOMAIN scenes :
     (scenes[i].id \notin OwnedIds /\ scenes[i].error # Undefined)
        => scenes[i].imageUrl = Undefined

\* C15: when a driver invocation ends, on success and on every terminal
\* failure kind, the statusMessage of its job is cleared.
C15_StatusClearedAtEnd ==
  [][\A slot \in ActiveSlots :
       DriverEnds(slot)
          => scenes'[DriverAt(slot).id + 1].statusMessage = NoStatus]_vars

\* the record of the job of the driver at slot, before and after the step
JobBefore(slot) == scenes[DriverAt(slot).id + 1]
JobAfter(slot) == scenes'[DriverAt(slot).id + 1]

\* the step of the driver at slot is not its last and writes no outcome
NoOutcomeWritten(slot) ==
  /\ JobAfter(slot).imageUrl = JobBefore(slot).imageUrl
  /\ JobAfter(slot).error \in {JobBefore(slot).error, Undefined}

\* the step is the last of the driver at slot and writes the failure tag
OnlyTagWritten(slot, tag) ==
  /\ Stopped(slot)
  /\ JobAfter(slot).error = tag
  /\ JobAfter(slot).imageUrl = JobBefore(slot).imageUrl
  /\ ~JobAfter(slot).isLoadingImage

\* the step is the last of the driver at slot and writes the result
OnlyResultWritten(slot, url) ==
  /\ Stopped(slot)
  /\ JobAfter(slot).imageUrl = url
  /\ JobAfter(slot).error = JobBefore(slot).error
  /\ ~JobAfter(slot).isLoadingImage

\* C16: a driver invocation makes exactly one terminating update, which sets
\* either imageUrl or one failure tag, never both; its other steps write no
\* outcome, and after the terminating update it is gone.
C16_OneTerminatingUpdate ==
  [][(\A slot \in ActiveSlots, url \in ImageUrls :
        RemoteSucceeds(slot, url) => OnlyResultWritten(slot, url))
     /\ (\A slot \in ActiveSlots, msg \in AllMessages :
           RemoteFails(slot, msg) =>
              IF Classify(msg) \in TerminalKinds
                THEN OnlyTagWritten(slot, TagOf(Classify(msg)))
                ELSE \/ OnlyTagWritten(slot, "Max Retries Exceeded")
                     \/ ~Stopped(slot) /\ NoOutcomeWritten(slot))
     /\ (\A slot \in ActiveSlots, late \in 0..MaxLate :
           Tick(slot, late) =>
              \/ OnlyTagWritten(slot, "Max Retries Exceeded")
              \/ ~Stopped(slot) /\ NoOutcomeWritten(slot))]_vars

\* a driver has waited after a retryable failure and then ended with a
\* result and no failure tag
C16_Witness ==
  /\ ActiveSlots = {}
  /\ eventsLeft = MaxMessageEvents - 2
  /\ \E i \in DOMAIN scenes :
        /\ scenes[i].imageUrl \in ImageUrls
        /\ scenes[i].error = Undefined
        /\ scenes[i].statusMessage = NoStatus
        /\ ~scenes[i].isLoadingImage

\* the invocations of the driver that are pending
Drivers ==
  {workers[w] : w \in DOMAIN workers}
    \cup {singles[k] : k \in DOMAIN singles}

\* the invocations that make a remote call in the step
CallsMade ==
  {d \in {workers'[w] : w \in DOMAIN workers'}
            \cup {singles'[k] : k \in DOMAIN singles'} :
     d.pc = "calling" /\ d \notin Drivers}

\* C17: every remote call of a driver, first attempt or retry, is made with
\* the prompt the job record holds at the moment of the call, so that an edit
\* made while the job is queued or in a backoff wait is used by the next call.
C17_CallsUseCurrentPrompt ==
  [][\A d \in CallsMade : d.prompt = scenes'[d.id + 1].imagePrompt]_vars

\* the letters, in both cases
UpperCase ==
  <<"A", "B", "C", "D", "E", "F", "G", "H", "I", "J", "K", "L", "M",
    "N", "O", "P", "Q", "R", "S", "T", "U", "V", "W", "X", "Y", "Z">>
LowerCase ==
  <<"a", "b", "c", "d", "e", "f", "g", "h", "i", "j", "k", "l", "m",
    "n", "o", "p", "q", "r", "s", "t", "u", "v", "w", "x", "y", "z">>

\* the character c in lower case
Lower(c) ==
  IF \E i \in DOMAIN UpperCase : UpperCase[i] = c
    THEN LowerCase[CHOOSE i \in DOMAIN UpperCase : UpperCase[i] = c]
    ELSE c

\* the messages m1 and m2 differ at most in the case of their letters
SameButCase(m1, m2) ==
  /\ Len(m1) = Len(m2)
  /\ \A i \in DOMAIN m1 : Lower(m1[i]) = Lower(m2[i])

\* the pairs of messages of the model that differ only in letter case
CasePairs ==
  {p \in AllMessages \X AllMessages : p[1] # p[2] /\ SameButCase(p[1], p[2])}

\* C18: the classifier matches its markers whatever their letter case: two
\* messages that differ only in letter case are classified to the same kind,
\* so the failure of a call has the same effect with either.
C18_ClassifierIgnoresCase ==
  [][\A slot \in ActiveSlots, p \in CasePairs :
       RemoteFails(slot, p[1])
          => Classify(p[1]) = Classify(p[2]) /\ RemoteFails(slot, p[2])]_vars

\* the messages of the driver specification that are ServiceOverloaded
OverloadMessages ==
  {msg \in Messages : Classify(msg) = "ServiceOverloaded"}

\* in the next state the invocation of job id that has failed k times is in
\* an overload wait with secs whole seconds to go
WaitsFor(id, k, secs) ==
  /\ \E d \in {workers'[w] : w \in DOMAIN workers'}
               \cup {singles'[n] : n \in DOMAIN singles'} :
        /\ d.id = id /\ d.attempts = k
        /\ d.pc = "waiting" /\ d.waitKind = "ServiceOverloaded"
        /\ d.remaining = secs
  /\ scenes'[id + 1].statusMessage = OverloadCountdown(secs)

\* a pending wait goes on until its seconds have run out: an invocation that
\* was waiting and makes a call in the step had at most one timer period
\* left
CallsOnlyAfterWait ==
  \A d \in Drivers, e \in CallsMade :
     (d.pc = "waiting" /\ d \notin Drivers'
        /\ e.id = d.id /\ e.attempts = d.attempts /\ e.calls = d.calls + 1)
        => d.remaining <= 1 + MaxLate

\* C19: the k-th failure of an invocation, counted over its failures of every
\* kind, when it is ServiceOverloaded, starts a wait of 5 * k seconds, and
\* the next attempt is made only when the wait is over.
C19_OverloadWaitIsFiveK ==
  [][/\ eventsLeft' # eventsLeft =>
          \A slot \in ActiveSlots, msg \in OverloadMessages :
             RemoteFails(slot, msg) =>
                WaitsFor(DriverAt(slot).id, DriverAt(slot).attempts + 1,
                         OverloadUnitSecs * (DriverAt(slot).attempts + 1))
      /\ CallsOnlyAfterWait]_vars

\* an invocation whose first failure was RateLimited and whose second was
\* ServiceOverloaded waits with 10 seconds to go
C19_Witness ==
  \E d \in Drivers :
     /\ d.attempts = 2
     /\ d.kinds = {"RateLimited", "ServiceOverloaded"}
     /\ d.pc = "waiting" /\ d.waitKind = "ServiceOverloaded"
     /\ d.remaining = 2 * OverloadUnitSecs

\* the messages of the message specification that are RateLimited
RateLimitMessages ==
  {msg \in AllMessages : Classify(msg) = "RateLimited"}

\* s is a decimal numeral: digits with at most one dot, at least one digit
IsNumeral(s) ==
  /\ s # <<>>
  /\ \A k \in DOMAIN s : s[k] \in NumChars
  /\ \E k \in DOMAIN s : s[k] \in Digits
  /\ Cardinality({k \in DOMAIN s : s[k] = "."}) <= 1

\* the numerals x for which msg contains "retry in <x>s"
RetryValues(msg) ==
  {x \in {SubSeq(msg, i, j) : i \in DOMAIN msg, j \in DOMAIN msg} :
     /\ IsNumeral(x)
     /\ Includes(msg, M_retryIn \o x \o <<"s">>)}

\* the wait the rate-limit rule gives msg: ceil(x) + 1 for the longest
\* numeral x after "retry in ", the default when there is none
ExpectedRateLimitWait(msg) ==
  IF RetryValues(msg) = {} THEN DefaultWaitSecs
  ELSE LET x == CHOOSE v \in RetryValues(msg) :
                   \A u \in RetryValues(msg) : Len(u) <= Len(v)
       IN  CeilParseFloat(x) + BufferSecs

\* in the next state the invocation of job id that has failed k times is in
\* a rate-limit wait with secs whole seconds to go
RateLimitWaitsFor(id, k, secs) ==
  /\ \E d \in {workers'[w] : w \in DOMAIN workers'}
               \cup {singles'[n] : n \in DOMAIN singles'} :
        /\ d.id = id /\ d.attempts = k
        /\ d.pc = "waiting" /\ d.waitKind = "RateLimited"
        /\ d.remaining = secs
  /\ scenes'[id + 1].statusMessage = RateLimitCountdown(secs)

\* C20: a RateLimited failure, whatever the attempt, starts a wait of
\* ceil(x) + 1 seconds when the message contains "retry in <x>s" with a
\* numeral x, and of exactly 30 seconds when no such value can be parsed.
C20_RateLimitWait ==
  [][eventsLeft' # eventsLeft =>
       \A slot \in ActiveSlots, msg \in RateLimitMessages :
          RemoteFails(slot, msg) =>
             RateLimitWaitsFor(DriverAt(slot).id, DriverAt(slot).attempts + 1,
                               ExpectedRateLimitWait(msg))]_vars

\* the rate-limit rule holds for every message but those whose captured
\* group has no digit
C20_RateLimitWaitOfNumerals ==
  [][eventsLeft' # eventsLeft =>
       \A slot \in ActiveSlots, msg \in RateLimitMessages :
          (RemoteFails(slot, msg) /\ RateLimitWait(msg) # NaN) =>
             RateLimitWaitsFor(DriverAt(slot).id, DriverAt(slot).attempts + 1,
                               ExpectedRateLimitWait(msg))]_vars

\* the ids of the jobs waiting in the queue, in queue order
QueueIds == [n \in DOMAIN queue |-> queue[n].id]

\* the jobs of the running batch that are still queued are its last ones, in
\* batch order: the jobs started so far are the first ones
StartedIsPrefix ==
  isGeneratingAll =>
     QueueIds = SubSeq(batchIds, Len(batchIds) - Len(queue) + 1, Len(batchIds))

\* in the next state a worker has just started on job id
JustStarted(id) ==
  \E v \in DOMAIN workers' :
     /\ workers'[v].id = id
     /\ workers'[v].pc = "calling"
     /\ workers'[v].calls = 1 /\ workers'[v].attempts = 0

\* the step that starts a batch starts its first jobs, in batch order
StartsFirstJobs ==
  /\ \A w \in DOMAIN workers' : workers'[w].id = batchIds'[w]
  /\ \A w \in DOMAIN workers' : JustStarted(batchIds'[w])
  /\ Len(batchIds') = CONCURRENCY_LIMIT + 2
        => Len(workers') = CONCURRENCY_LIMIT

\* C21: within one batch the jobs are started in queue order: the queue
\* loses its jobs from the head only, each in a step that starts it, the
\* step in which a worker's job finishes starts the job at the head of the
\* queue, and a batch of five jobs starts on its first three.
C21_StartsInQueueOrder ==
  /\ []StartedIsPrefix
  /\ [][/\ (~isGeneratingAll /\ isGeneratingAll') => StartsFirstJobs
        /\ (isGeneratingAll /\ queue' # queue) =>
              queue' = Tail(queue) /\ JustStarted(Head(queue).id)
        /\ \A w \in DOMAIN workers :
              (Stopped(<<"worker", w>>) /\ queue # <<>>) =>
                 queue' = Tail(queue) /\ JustStarted(Head(queue).id)]_vars

\* of a batch of five jobs the fourth has been started by the worker whose
\* job finished, and the fifth is queued
C21_Witness ==
  /\ isGeneratingAll
  /\ Len(batchIds) = CONCURRENCY_LIMIT + 2
  /\ QueueIds = <<batchIds[Len(batchIds)]>>
  /\ Len(workers) = CONCURRENCY_LIMIT
  /\ workers[CONCURRENCY_LIMIT].id = batchIds[CONCURRENCY_LIMIT + 1]
  /\ workers[CONCURRENCY_LIMIT].calls = 1

\* the ids of the jobs the workers of the batch are on, in workers order
WorkerIds == [w \in DOMAIN workers |-> workers[w].id]

\* no element occurs twice in the sequence s
Distinct(s) == \A i, j \in DOMAIN s : s[i] = s[j] => i = j

\* the jobs of the running batch are distinct, and each is in one place:
\* still queued, or with one worker, or done
EachJobInOnePlace ==
  isGeneratingAll =>
     /\ Distinct(batchIds)
     /\ Distinct(QueueIds \o WorkerIds)
     /\ \A n \in DOMAIN queue : \E m \in DOMAIN batchIds :
           m > Len(batchIds) - Len(queue) /\ batchIds[m] = queue[n].id
     /\ \A w \in DOMAIN workers : \E m \in DOMAIN batchIds :
           m <= Len(batchIds) - Len(queue) /\ batchIds[m] = workers[w].id

\* a step of the running batch either leaves the queue and the jobs of the
\* workers as they are, but for a worker that exits, or hands the head of
\* the queue to a worker whose driver has ended in the step with a terminal
\* state written
HandsOverOneJob ==
  IF queue' = queue
    THEN \A v \in DOMAIN workers' : \E w \in DOMAIN workers :
            workers'[v].id = workers[w].id
    ELSE /\ queue' = Tail(queue)
         /\ Len(workers') = Len(workers)
         /\ \E w \in DOMAIN workers :
               /\ Stopped(<<"worker", w>>)
               /\ TerminalWritten(workers[w].id)
               /\ {workers'[v].id : v \in DOMAIN workers'}
                    = ({workers[v].id : v \in DOMAIN workers}
                         \ {workers[w].id}) \cup {Head(queue).id}

\* C22: within one call of runConcurrentGeneration every job of the batch is
\* handed to the driver exactly once: a job leaves the queue once, to one
\* worker, and only when that worker's previous driver has ended; no job is
\* left in the queue when the batch resolves.
C22_EachJobStartedOnce ==
  /\ []EachJobInOnePlace
  /\ [][/\ (isGeneratingAll /\ isGeneratingAll') => HandsOverOneJob
        /\ BatchResolves => queue = <<>> /\ queue' = <<>>]_vars

\* a worker is in the backoff wait of the first job of the batch while the
\* last of the four jobs has been taken by the other worker
C22_Witness ==
  /\ isGeneratingAll
  /\ Len(batchIds) = CONCURRENCY_LIMIT + 1
  /\ queue = <<>>
  /\ \E w, v \in DOMAIN workers :
        /\ workers[w].id = batchIds[1]
        /\ workers[w].pc = "waiting" /\ workers[w].attempts = 1
        /\ workers[v].id = batchIds[Len(batchIds)]

\* the workers of the batch that are in a backoff wait
WaitingWorkers == {w \in DOMAIN workers : workers[w].pc = "waiting"}

\* while a worker is in a backoff wait, the remote call of every calling
\* worker can settle
NoWorkerBlocked ==
  \A w \in DOMAIN workers :
     (workers[w].pc = "calling" /\ WaitingWorkers # {}) =>
        \A url \in ImageUrls : ENABLED RemoteSucceeds(<<"worker", w>>, url)

\* the step in which worker w's job finishes while other workers are in a
\* backoff wait leaves those workers in their waits and starts the job at
\* the head of the queue
PullsDuringWait(w) ==
  /\ \A v \in WaitingWorkers \ {w} :
        \E u \in DOMAIN workers' : workers'[u] = workers[v]
  /\ queue # <<>> => queue' = Tail(queue) /\ JustStarted(Head(queue).id)

\* C23: a worker whose job is in a backoff wait does not block the other
\* workers: their calls settle during the wait, and a worker whose job
\* finishes during the wait takes the next job of the shared queue.
C23_WaitDoesNotBlock ==
  /\ []NoWorkerBlocked
  /\ [][\A w \in DOMAIN workers :
          (Stopped(<<"worker", w>>) /\ WaitingWorkers \ {w} # {})
             => PullsDuringWait(w)]_vars

\* the first job of the batch is still in its backoff wait, the second has
\* finished with an image, and its worker has pulled a later job
C23_Witness ==
  /\ isGeneratingAll
  /\ Len(batchIds) > CONCURRENCY_LIMIT
  /\ \E w, v \in DOMAIN workers, m \in DOMAIN batchIds :
        /\ workers[w].id = batchIds[1] /\ workers[w].pc = "waiting"
        /\ SceneOf(batchIds[2]).imageUrl \in ImageUrls
        /\ ~SceneOf(batchIds[2]).isLoadingImage
        /\ SceneOf(batchIds[1]).imageUrl = Undefined
        /\ m > 2 /\ workers[v].id = batchIds[m] /\ workers[v].calls = 1

\* the driver at slot in the next state, when it has not ended
DriverAfter(slot) == IF slot[1] = "worker" THEN workers'[slot[2]]
                     ELSE singles'[slot[2]]

\* the step is one of the wait phase of the driver at slot: a failure that
\* starts a countdown, or a timer that fires before the countdown is over
WaitPhaseStep(slot) ==
  \/ \E late \in 0..MaxLate :
        /\ DriverAt(slot).remaining > 1 + late
        /\ Tick(slot, late)
  \/ /\ eventsLeft' # eventsLeft
     /\ \E msg \in AllMessages :
           /\ Classify(msg) \in Retryable
           /\ Classify(msg) = "RateLimited" => RateLimitWait(msg) # NaN
           /\ RemoteFails(slot, msg)

\* the fields of a job record but statusMessage
OtherFields == {"id", "imagePrompt", "imageUrl", "isLoadingImage", "error"}

\* the step changes nothing in the job records but the statusMessage of job
\* id, which becomes a countdown of secs seconds
WritesCountdownOnly(id, secs) ==
  /\ DOMAIN scenes' = DOMAIN scenes
  /\ \A i \in DOMAIN scenes :
        /\ scenes[i].id # id => scenes'[i] = scenes[i]
        /\ \A f \in OtherFields : scenes'[i][f] = scenes[i][f]
  /\ scenes'[id + 1].statusMessage
        \in {RateLimitCountdown(secs), OverloadCountdown(secs)}

\* C24: a step of the wait phase of a driver writes the statusMessage of the
\* driver's job and nothing else, a countdown of the whole seconds left that
\* is positive and, on a tick, lower than the one before: isLoadingImage
\* stays as it is, and imageUrl, error and imagePrompt are unchanged.
C24_WaitWritesOnlyStatus ==
  [][\A slot \in ActiveSlots :
       WaitPhaseStep(slot) =>
          /\ DriverAfter(slot).pc = "waiting"
          /\ DriverAfter(slot).remaining > 0
          /\ DriverAt(slot).pc = "waiting"
                => DriverAfter(slot).remaining < DriverAt(slot).remaining
          /\ WritesCountdownOnly(DriverAt(slot).id,
                                 DriverAfter(slot).remaining)
          /\ UNCHANGED <<hasApiKey, error, appState, isGeneratingAll,
                         queue, batchIds>>]_vars

\* a driver is in an overload wait after its first failure, a timer has
\* fired, and the job record shows the seconds left and is still loading
C24_Witness ==
  \E d \in Drivers :
     /\ d.pc = "waiting" /\ d.waitKind = "ServiceOverloaded"
     /\ d.attempts = 1
     /\ d.remaining < OverloadUnitSecs
     /\ SceneOf(d.id).statusMessage = OverloadCountdown(d.remaining)
     /\ SceneOf(d.id).isLoadingImage
     /\ SceneOf(d.id).error = Undefined

\* the ids of the job records the step changes
ChangedIds ==
  {scenes[i].id : i \in {j \in DOMAIN scenes : scenes'[j] # scenes[j]}}

\* the step keeps the job records in place, each with its id
IdsKept ==
  /\ DOMAIN scenes' = DOMAIN scenes
  /\ \A i \in DOMAIN scenes : scenes'[i].id = scenes[i].id

\* the step is one of the driver at slot: its remote call settles or its
\* timer fires
StepOfDriver(slot) ==
  \/ \E url \in ImageUrls : RemoteSucceeds(slot, url)
  \/ \E late \in 0..MaxLate : Tick(slot, late)
  \/ /\ eventsLeft' # eventsLeft
     /\ \E msg \in BulkMessages : RemoteFails(slot, msg)

\* the job whose driver the step of the driver at slot starts: the head of
\* the queue when the slot is a worker's, none otherwise
StartedAfter(slot) ==
  IF slot[1] = "worker" /\ queue' # queue THEN {Head(queue).id} ELSE {}

\* C25: a driver writes only to the record of the job it was started for,
\* and retryFailed only to the records of the jobs it selected: the step of
\* a driver changes no record but that of its job and, when it is a worker's
\* and the worker goes on, that of the job the next driver is started for;
\* the ids of the jobs never change.
C25_WritesOwnJobOnly ==
  [][/\ \A slot \in ActiveSlots :
          \/ /\ IdsKept
             /\ ChangedIds \subseteq {DriverAt(slot).id} \cup StartedAfter(slot)
          \/ ~StepOfDriver(slot)
     /\ \A id \in SceneIds :
          \/ IdsKept /\ ChangedIds \subseteq {id}
          \/ ~HandleGenerateSingleImage(id)
     /\ HandleRegenerateFailed =>
          /\ IdsKept
          /\ ChangedIds \subseteq
               {scenes[i].id : i \in {j \in DOMAIN scenes :
                                        scenes[j].error # Undefined}}]_vars

\* retryFailed has started a batch of the one job that had failed after it
\* had got an image, beside a job whose record it left alone
C25_Witness ==
  /\ isGeneratingAll
  /\ Len(batchIds) = 1
  /\ SceneOf(batchIds[1]).imageUrl \in ImageUrls
  /\ SceneOf(batchIds[1]).isLoadingImage
  /\ \E i \in DOMAIN scenes :
        /\ scenes[i].id # batchIds[1]
        /\ scenes[i].imageUrl \in ImageUrls
        /\ ~scenes[i].isLoadingImage
        /\ scenes[i].error = Undefined

\* some driver invocation is running job id
Driven(id) == \E d \in Drivers : d.id = id

\* C26: when every remote call settles and every timer fires, every driver
\* invocation makes at most maxAttempts remote calls and ends, and every
\* call of runConcurrentGeneration resolves and leaves isGeneratingAll
\* false, the call with an empty batch within its own step.
C26_DriversAndBatchesEnd ==
  /\ [](\A d \in Drivers : d.calls <= maxAttempts /\ d.attempts <= maxAttempts)
  /\ \A id \in 0..(MaxLiveScenes - 1) : Driven(id) ~> ~Driven(id)
  /\ isGeneratingAll ~> (~isGeneratingAll /\ workers = <<>> /\ queue = <<>>)
  /\ [][(HandleGenerateAll /\ PendingScenes(scenes) = <<>>)
          => ~isGeneratingAll' /\ workers' = <<>>]_vars

\* a worker of a batch is on the last call maxAttempts allows
C26_Witness ==
  /\ isGeneratingAll
  /\ \E w \in DOMAIN workers :
        /\ workers[w].calls = maxAttempts
        /\ workers[w].attempts = maxAttempts - 1
        /\ workers[w].pc = "calling"

\* the kinds of the classifier in the order of the claim, and their markers
KindOrder ==
  <<"DailyQuotaExceeded", "RateLimited", "ServiceOverloaded", "AuthDenied">>

MarkersOf(kind) ==
  CASE kind = "DailyQuotaExceeded" -> {M_perDay}
    [] kind = "RateLimited" -> {M_429, M_quota}
    [] kind = "ServiceOverloaded" -> {M_503, M_overloaded, M_UNAVAILABLE}
    [] kind = "AuthDenied" -> {M_403, M_PERMISSION_DENIED}

\* msg contains a marker of kind
Carries(msg, kind) == \E m \in MarkersOf(kind) : Includes(msg, m)

\* the first kind of KindOrder of which msg carries a marker
FirstMatch(msg) ==
  LET hits == {k \in DOMAIN KindOrder : Carries(msg, KindOrder[k])}
  IN  IF hits = {} THEN "Unknown"
      ELSE KindOrder[CHOOSE k \in hits : \A j \in hits : k <= j]

\* the failure is retried as one of kind: the driver goes on, its failed
\* attempt counted as one of that kind, and no signal is emitted
RetriedAs(slot, kind) ==
  /\ NotSignalled
  /\ \/ scenes'[DriverAt(slot).id + 1].error = SceneOf(DriverAt(slot).id).error
     \/ scenes'[DriverAt(slot).id + 1].error
           \in {Undefined, "Max Retries Exceeded"}
  /\ \/ /\ ~Stopped(slot)
        /\ DriverAfter(slot).attempts = DriverAt(slot).attempts + 1
        /\ kind \in DriverAfter(slot).kinds
        /\ DriverAfter(slot).pc = "waiting" => DriverAfter(slot).waitKind = kind
     \/ DriverAt(slot).attempts + 1 = maxAttempts

\* the failure ends the driver with the tag of kind
EndedAs(slot, kind) ==
  /\ Stopped(slot)
  /\ scenes'[DriverAt(slot).id + 1].error = TagOf(kind)
  /\ IF kind = "AuthDenied" THEN Signalled ELSE NotSignalled

\* C27: a failure is handled as the first kind, in the order
\* DailyQuotaExceeded, RateLimited, ServiceOverloaded, AuthDenied, of which
\* the message carries a marker, and as Unknown when it carries none: a
\* message with a retryable marker and an auth marker is retried without a
\* credential signal, and a message with the per-day marker ends the driver
\* even when it contains "429".
C27_FirstMatchInOrder ==
  [][eventsLeft' # eventsLeft =>
       \A slot \in ActiveSlots, msg \in AllMessages :
          RemoteFails(slot, msg) =>
             /\ Classify(msg) = FirstMatch(msg)
             /\ IF FirstMatch(msg) \in Retryable
                  THEN RetriedAs(slot, FirstMatch(msg))
                  ELSE EndedAs(slot, FirstMatch(msg))
             /\ Carries(msg, "DailyQuotaExceeded") => Stopped(slot)
             /\ (/\ Carries(msg, "AuthDenied")
                 /\ Carries(msg, "RateLimited")
                       \/ Carries(msg, "ServiceOverloaded")
                 /\ ~Carries(msg, "DailyQuotaExceeded")) => NotSignalled]_vars

\* the message with "429" and the per-day marker, the only one of the model
\* that is DailyQuotaExceeded, has ended a driver on its first attempt
C27_Witness ==
  /\ ActiveSlots = {}
  /\ {msg \in AllMessages : Carries(msg, "DailyQuotaExceeded")}
        = {msg \in AllMessages : Carries(msg, "DailyQuotaExceeded")
                                   /\ Carries(msg, "RateLimited")}
  /\ \E i \in DOMAIN scenes :
        /\ scenes[i].error = "Daily Quota Exceeded"
        /\ scenes[i].statusMessage = DailyLimitReached
        /\ ~scenes[i].isLoadingImage

\* the wait the claim gives the failure msg of the attempt numbered k
ExpectedWait(msg, k) ==
  IF Classify(msg) = "RateLimited" THEN ExpectedRateLimitWait(msg)
  ELSE OverloadUnitSecs * k

\* in the next state the driver at slot is in the wait of secs seconds that
\* follows its last attempt, its job loading and showing the countdown
InLastWait(slot, secs) ==
  /\ ~Stopped(slot)
  /\ DriverAfter(slot).pc = "waiting"
  /\ DriverAfter(slot).remaining = secs
  /\ DriverAfter(slot).calls = maxAttempts
  /\ scenes'[DriverAt(slot).id + 1].isLoadingImage
  /\ scenes'[DriverAt(slot).id + 1].statusMessage
        \in {RateLimitCountdown(secs), OverloadCountdown(secs)}

\* a timer of the wait after the last attempt either leaves the driver
\* waiting or ends it with "Max Retries Exceeded", and starts no call
LastWaitGoesOn(slot) ==
  \/ /\ ~Stopped(slot)
     /\ DriverAfter(slot).pc = "waiting"
     /\ DriverAfter(slot).calls = maxAttempts
  \/ /\ Stopped(slot)
     /\ scenes'[DriverAt(slot).id + 1].error = "Max Retries Exceeded"

\* C28: when the fifth attempt of a driver fails with a retryable kind, the
\* driver still runs the whole backoff wait, 25 seconds for
\* ServiceOverloaded, the parsed or 30 second wait for RateLimited, with
\* isLoadingImage true and the countdown shown, makes no further call, and
\* only then sets "Max Retries Exceeded".
C28_LastWaitIsRun ==
  [][\A slot \in ActiveSlots :
       /\ eventsLeft' # eventsLeft =>
             \A msg \in Messages :
                (/\ Classify(msg) \in Retryable
                 /\ DriverAt(slot).attempts + 1 = maxAttempts
                 /\ RemoteFails(slot, msg))
                   => InLastWait(slot, ExpectedWait(msg, maxAttempts))
       /\ \A late \in 0..MaxLate :
             (DriverAt(slot).attempts = maxAttempts /\ Tick(slot, late))
                => LastWaitGoesOn(slot)]_vars

\* the last wait is run in full after every retryable failure but those
\* whose retry delay parses to NaN
C28_LastWaitIsRunButNaN ==
  [][\A slot \in ActiveSlots :
       /\ eventsLeft' # eventsLeft =>
             \A msg \in Messages \ NoWaitMessages :
                (/\ Classify(msg) \in Retryable
                 /\ DriverAt(slot).attempts + 1 = maxAttempts
                 /\ RemoteFails(slot, msg))
                   => InLastWait(slot, ExpectedWait(msg, maxAttempts))
       /\ \A late \in 0..MaxLate :
             (DriverAt(slot).attempts = maxAttempts /\ Tick(slot, late))
                => LastWaitGoesOn(slot)]_vars

\* isGeneratingAll is true exactly while worker loops of a batch are pending,
\* and the jobs in the queue and with the workers are those of one batch
OneBatchRunning ==
  /\ isGeneratingAll <=> workers # <<>>
  /\ ~isGeneratingAll => queue = <<>> /\ batchIds = <<>>
  /\ \A n \in DOMAIN queue : \E m \in DOMAIN batchIds : batchIds[m] = queue[n].id
  /\ \A w \in DOMAIN workers :
        \E m \in DOMAIN batchIds : batchIds[m] = workers[w].id

\* C29: with the two bulk buttons disabled while isGeneratingAll is true, at
\* most one batch is running at any time: a bulk action starts only when no
\* worker loop of an earlier batch is pending, and isGeneratingAll is true
\* from the start of runConcurrentGeneration until the last of its worker
\* loops has exited.
C29_OneBatchAtATime ==
  /\ []OneBatchRunning
  /\ [][/\ (HandleGenerateAll \/ HandleRegenerateFailed) =>
              /\ ~isGeneratingAll /\ workers = <<>> /\ queue = <<>>
              /\ isGeneratingAll' <=> workers' # <<>>
        /\ (~isGeneratingAll /\ isGeneratingAll') =>
              HandleGenerateAll \/ HandleRegenerateFailed
        /\ BatchResolves =>
              Len(workers) = 1 /\ workers' = <<>> /\ queue = <<>>]_vars

\* of the two worker loops of a batch of three jobs one has exited, and
\* isGeneratingAll is still true while the other is on the last job
C29_Witness ==
  /\ isGeneratingAll
  /\ Len(batchIds) = CONCURRENCY_LIMIT
  /\ queue = <<>>
  /\ Len(workers) = 1
  /\ workers[1].id = batchIds[Len(batchIds)]
  /\ \A m \in 1..(Len(batchIds) - 1) : ~SceneOf(batchIds[m]).isLoadingImage

\* the delay the claim gives the wait after the failure of call number k
ExpectedDelay(k) == IF k = 1 THEN 2 ELSE 4

\* the failure msg of a call of callWithRetry is followed by a wait, with the
\* delay of the call's number, and analyzeScript stays pending
CallIsRetried(msg) ==
  /\ analysis'.pc = "waiting"
  /\ analysis'.delay = ExpectedDelay(analysis.calls)
  /\ analysis'.calls = analysis.calls
  /\ analysis'.caught = msg
  /\ appState' = "ANALYZING"

\* the failure msg of a call of callWithRetry is rethrown without another
\* call, and handleAnalysis ends in its catch block
CallIsRethrown(msg) ==
  /\ analysis'.pc = "thrown"
  /\ analysis'.caught = msg
  /\ analysis'.calls = analysis.calls
  /\ appState' = "ERROR"

====
